---- MODULE Spec2Model ----
(***************************************************************************)
(* Model of src/src/01_preprocess.py: the cleaning and feature-derivation  *)
(* pipeline for the laptop fleet table.  A string is a sequence of         *)
(* one-character strings, a number is an exact rational n/d, and a cell    *)
(* of the data frame is a record tagged with what it holds.                *)
(***************************************************************************)
EXTENDS Integers, Sequences, FiniteSets, TLC

VARIABLES
    pc,           \* the statement block the script has reached
    columns,      \* df.columns
    df,           \* the rows of df
    raw_columns,  \* the header line as pd.read_csv read it (line 61)
    raw_df,       \* the rows as pd.read_csv read them (line 61)
    out_clean,    \* the table written to OUT (line 153)
    out_feats,    \* the table written to OUT_FEATS (line 165)
    arg,          \* the argument of a call of to_number or normalize_vendor
    ret           \* its return value

vars == <<pc, columns, df, raw_columns, raw_df, out_clean, out_feats, arg, ret>>

(***************************************************************************)
(* Bounds of the model.                                                    *)
(***************************************************************************)
MaxRowsDedup == 3
MaxRowsImpute == 3
MaxRowsFeat == 2
MaxPad == 1
MaxNumLen == 3
MaxVendorLen == 3

(***************************************************************************)
(* Cells.  k is "na" (NaN / NaT / None), "str", "num" (n/d, d > 0, lowest  *)
(* terms), "date" (n = days since 1970-01-01), "pinf" or "ninf".           *)
(***************************************************************************)
Cell(k, s, n, d) == [k |-> k, s |-> s, n |-> n, d |-> d]
NA == Cell("na", <<>>, 0, 1)
Str(s) == Cell("str", s, 0, 1)
PInf == Cell("pinf", <<>>, 0, 1)
NInf == Cell("ninf", <<>>, 0, 1)
Date(days) == Cell("date", <<>>, days, 1)
IsNA(x) == x.k = "na"

(***************************************************************************)
(* Exact rational arithmetic.                                              *)
(***************************************************************************)
Abs(i) == IF i < 0 THEN -i ELSE i

RECURSIVE GCD(_, _)
GCD(a, b) == IF b = 0 THEN a ELSE GCD(b, a % b)

Num(n, d) ==
    LET g == GCD(Abs(n), Abs(d))
        sg == IF d < 0 THEN -1 ELSE 1
    IN Cell("num", <<>>, sg * (n \div g), sg * (d \div g))

Int2Num(i) == Cell("num", <<>>, i, 1)
RLt(a, b) == a.n * b.d < b.n * a.d
RLe(a, b) == a.n * b.d <= b.n * a.d
RAdd(a, b) == Num(a.n * b.d + b.n * a.d, a.d * b.d)
RSub(a, b) == Num(a.n * b.d - b.n * a.d, a.d * b.d)
RMul(a, b) == Num(a.n * b.n, a.d * b.d)
RDiv(a, b) == Num(a.n * b.d, a.d * b.n)
RMin(a, b) == IF RLe(a, b) THEN a ELSE b
RMax(a, b) == IF RLe(a, b) THEN b ELSE a

(***************************************************************************)
(* Strings.                                                                *)
(***************************************************************************)
Digits == {"0", "1", "2", "3", "4", "5", "6", "7", "8", "9"}
DigitVal == [c \in Digits |->
    CASE c = "0" -> 0 [] c = "1" -> 1 [] c = "2" -> 2 [] c = "3" -> 3
      [] c = "4" -> 4 [] c = "5" -> 5 [] c = "6" -> 6 [] c = "7" -> 7
      [] c = "8" -> 8 [] c = "9" -> 9]

EnDash == "EN_DASH"
EmDash == "EM_DASH"
Whitespace == {" ", "\t"}

LowerOf == [A |-> "a", B |-> "b", C |-> "c", D |-> "d", E |-> "e", F |-> "f",
            G |-> "g", H |-> "h", I |-> "i", J |-> "j", K |-> "k", L |-> "l",
            M |-> "m", N |-> "n", O |-> "o", P |-> "p", Q |-> "q", R |-> "r",
            S |-> "s", T |-> "t", U |-> "u", V |-> "v", W |-> "w", X |-> "x",
            Y |-> "y", Z |-> "z"]
LowerChar(c) == IF c \in DOMAIN LowerOf THEN LowerOf[c] ELSE c
UpperChar(c) ==
    IF \E u \in DOMAIN LowerOf : LowerOf[u] = c
    THEN CHOOSE u \in DOMAIN LowerOf : LowerOf[u] = c
    ELSE c
Lower(s) == [i \in 1..Len(s) |-> LowerChar(s[i])]
Upper(s) == [i \in 1..Len(s) |-> UpperChar(s[i])]

RECURSIVE LStrip(_)
LStrip(s) == IF s # <<>> /\ Head(s) \in Whitespace THEN LStrip(Tail(s)) ELSE s
RECURSIVE RStrip(_)
RStrip(s) ==
    IF s # <<>> /\ s[Len(s)] \in Whitespace
    THEN RStrip(SubSeq(s, 1, Len(s) - 1))
    ELSE s
Strip(s) == RStrip(LStrip(s))

Remove(s, c) == SelectSeq(s, LAMBDA x : x # c)
Replace1(s, c, r) == [i \in 1..Len(s) |-> IF s[i] = c THEN r ELSE s[i]]

Contains(s, t) ==
    \E i \in 0..(Len(s) - Len(t)) : SubSeq(s, i + 1, i + Len(t)) = t

RECURSIVE DigitsVal(_)
DigitsVal(s) ==
    IF s = <<>> THEN 0
    ELSE 10 * DigitsVal(SubSeq(s, 1, Len(s) - 1)) + DigitVal[s[Len(s)]]

RECURSIVE Pow10(_)
Pow10(k) == IF k = 0 THEN 1 ELSE 10 * Pow10(k - 1)

AllDigits(s) == \A i \in 1..Len(s) : s[i] \in Digits

\* pandas.Timestamp holds nanoseconds in 64 bits: whole years 1678..2261
MinTimestampYear == 1678
MaxTimestampYear == 2261

(***************************************************************************)
(* to_number (lines 27-39).                                                *)
(***************************************************************************)
\* a variant of the substitution that keeps a minus sign only in first place
ReSubLeadingMinusOnly(s) ==
    LET t == SelectSeq(s, LAMBDA c : c \in Digits \cup {".", "-"})
    IN IF t # <<>> /\ Head(t) = "-"
       THEN <<"-">> \o Remove(Tail(t), "-")
       ELSE Remove(t, "-")

\* re.sub(r"[^\d\.\-]", "", s): every character outside the class is dropped
ReSubNonNumeric(s) == SelectSeq(s, LAMBDA c : c \in Digits \cup {".", "-"})

\* float(s) for s over digits, "." and "-": [-]digits[.digits] with at least
\* one digit; anything else raises ValueError, modelled as NA
PyFloat(s) ==
    LET neg == s # <<>> /\ Head(s) = "-"
        body == IF neg THEN Tail(s) ELSE s
        dots == {i \in 1..Len(body) : body[i] = "."}
        digs == SelectSeq(body, LAMBDA c : c \in Digits)
        ok == /\ \A i \in 1..Len(body) : body[i] \in Digits \cup {"."}
              /\ Cardinality(dots) <= 1
              /\ digs # <<>>
        fracLen == IF dots = {} THEN 0 ELSE Len(body) - (CHOOSE i \in dots : TRUE)
    IN IF ok
       THEN Num((IF neg THEN -1 ELSE 1) * DigitsVal(digs), Pow10(fracLen))
       ELSE NA

to_number(x) ==
    IF IsNA(x) \/ x.s = <<>> THEN NA
    ELSE LET s0 == Strip(x.s)
             s1 == Remove(s0, ",")
             s2 == Remove(s1, EmDash)
             s3 == ReSubNonNumeric(s2)
         IN IF s3 \in {<<>>, <<"-">>, <<"-", "-">>} THEN NA ELSE PyFloat(s3)

(***************************************************************************)
(* normalize_vendor (lines 41-53).                                         *)
(***************************************************************************)
V_Lenovo == <<"L", "e", "n", "o", "v", "o">>
V_Dell == <<"D", "e", "l", "l">>
V_HP == <<"H", "P">>
V_Apple == <<"A", "p", "p", "l", "e">>
V_Asus == <<"A", "s", "u", "s">>
V_Acer == <<"A", "c", "e", "r">>
V_MSI == <<"M", "S", "I">>
V_unknown == <<"u", "n", "k", "n", "o", "w", "n">>

CanonicalVendors == {V_Lenovo, V_Dell, V_HP, V_Apple, V_Asus, V_Acer, V_MSI}

\* the dict literal of lines 44-52 (the key "msi" is written three times)
mapping ==
    {<<<<"l", "e", "n", "o", "v", "o">>, V_Lenovo>>,
     <<<<"l", "e", "n", "o", "v", "0">>, V_Lenovo>>,
     <<<<"l", "e", "n", "v", "o">>, V_Lenovo>>,
     <<<<"d", "e", "l", "l">>, V_Dell>>,
     <<<<"d", "e", "l", "l", "l">>, V_Dell>>,
     <<<<"h", "p">>, V_HP>>,
     <<<<"h", "-", "p">>, V_HP>>,
     <<<<"a", "p", "p", "l", "e">>, V_Apple>>,
     <<<<"a", "p", " ", "p", "l", "e">>, V_Apple>>,
     <<<<"a", "s", "u", "s">>, V_Asus>>,
     <<<<"a", "s", "u", "s", "s">>, V_Asus>>,
     <<<<"a", "c", "e", "r">>, V_Acer>>,
     <<<<"a_circ", "c", "e", "r">>, V_Acer>>,
     <<<<"m", "s", "i">>, V_MSI>>}

MappingGet(s, default) ==
    IF \E e \in mapping : e[1] = s
    THEN (CHOOSE e \in mapping : e[1] = s)[2]
    ELSE default

normalize_vendor(v) ==
    IF IsNA(v) THEN NA
    ELSE Str(MappingGet(Remove(Lower(Strip(v.s)), " "), V_unknown))

(***************************************************************************)
(* coerce_date (lines 12-25).                                              *)
(***************************************************************************)
RECURSIVE Split(_, _)
Split(s, sep) ==
    IF \E i \in 1..Len(s) : s[i] = sep
    THEN LET i == CHOOSE j \in 1..Len(s) :
                      s[j] = sep /\ \A h \in 1..(j - 1) : s[h] # sep
         IN <<SubSeq(s, 1, i - 1)>> \o Split(SubSeq(s, i + 1, Len(s)), sep)
    ELSE <<s>>

MonthAbbr == <<<<"j", "a", "n">>, <<"f", "e", "b">>, <<"m", "a", "r">>,
               <<"a", "p", "r">>, <<"m", "a", "y">>, <<"j", "u", "n">>,
               <<"j", "u", "l">>, <<"a", "u", "g">>, <<"s", "e", "p">>,
               <<"o", "c", "t">>, <<"n", "o", "v">>, <<"d", "e", "c">>>>

IsLeap(y) == (y % 4 = 0 /\ y % 100 # 0) \/ y % 400 = 0
DaysInMonth(y, m) ==
    IF m = 2 THEN (IF IsLeap(y) THEN 29 ELSE 28)
    ELSE IF m \in {4, 6, 9, 11} THEN 30 ELSE 31

\* days since 1970-01-01 of the proleptic Gregorian date y-m-d
DaysFromCivil(y, m, d) ==
    LET yy == IF m <= 2 THEN y - 1 ELSE y
        era == yy \div 400
        yoe == yy - era * 400
        mp == IF m > 2 THEN m - 3 ELSE m + 9
        doy == (153 * mp + 2) \div 5 + d - 1
        doe == yoe * 365 + yoe \div 4 - yoe \div 100 + doy
    IN era * 146097 + doe - 719468

\* one strptime directive against one field: the value, or -1 on mismatch
Directive(dir, f) ==
    CASE dir = "Y" -> IF Len(f) = 4 /\ AllDigits(f) THEN DigitsVal(f) ELSE -1
      [] dir = "m" -> IF Len(f) \in {1, 2} /\ AllDigits(f) /\ DigitsVal(f) \in 1..12
                      THEN DigitsVal(f) ELSE -1
      [] dir = "d" -> IF Len(f) \in {1, 2} /\ AllDigits(f) /\ DigitsVal(f) \in 1..31
                      THEN DigitsVal(f) ELSE -1
      [] dir = "b" -> IF \E i \in 1..12 : MonthAbbr[i] = Lower(f)
                      THEN CHOOSE i \in 1..12 : MonthAbbr[i] = Lower(f) ELSE -1

\* pd.to_datetime(s, format=fmt) for a format of three directives joined by
\* sep; NA stands for the exception the caller swallows
Strptime(s, fmt) ==
    LET fs == Split(s, fmt.sep)
        val(dir) == LET i == CHOOSE j \in 1..3 : fmt.dirs[j] = dir
                    IN Directive(dir, fs[i])
        mdir == IF "b" \in {fmt.dirs[j] : j \in 1..3} THEN "b" ELSE "m"
        y == val("Y")
        m == val(mdir)
        d == val("d")
    IN IF Len(fs) # 3 THEN NA
       ELSE IF y = -1 \/ m = -1 \/ d = -1 THEN NA
       ELSE IF d > DaysInMonth(y, m) THEN NA
       ELSE IF y < MinTimestampYear \/ y > MaxTimestampYear THEN NA
       ELSE Date(DaysFromCivil(y, m, d))

fmts == <<[sep |-> "-", dirs |-> <<"Y", "m", "d">>],
          [sep |-> "/", dirs |-> <<"d", "m", "Y">>],
          [sep |-> "-", dirs |-> <<"m", "d", "Y">>],
          [sep |-> "/", dirs |-> <<"Y", "m", "d">>],
          [sep |-> "-", dirs |-> <<"d", "b", "Y">>]>>

\* pd.to_datetime(s, errors="coerce", dayfirst=True) on a string none of fmts
\* reads.  The inputs of this model that get here hold no digit, and the
\* lenient parser reads no date off them.
LenientParse(s) == NA

coerce_date(x) ==
    IF IsNA(x) \/ x.s = <<>> THEN NA
    ELSE LET s0 == Strip(x.s)
             s1 == Replace1(Replace1(s0, EnDash, "-"), EmDash, "-")
             hits == {i \in 1..Len(fmts) : ~IsNA(Strptime(s1, fmts[i]))}
         IN IF hits = {} THEN LenientParse(s1)
            ELSE Strptime(s1, fmts[CHOOSE i \in hits : \A j \in hits : i <= j])

(***************************************************************************)
(* The data frame.  columns is the set of headers, each a column name      *)
(* with the blanks the header line has around it; df is the sequence of    *)
(* rows, a row mapping a column name to its cell.                          *)
(***************************************************************************)
Header(name, lpad, rpad) == [name |-> name, lpad |-> lpad, rpad |-> rpad]

\* c in df.columns
Has(cols, c) == Header(c, 0, 0) \in cols

Range(s) == {s[i] : i \in 1..Len(s)}

MapCol(d, c, f(_)) == [i \in 1..Len(d) |-> [d[i] EXCEPT ![c] = f(@)]]

AddCol(d, c, f(_)) == [i \in 1..Len(d) |-> (c :> f(i)) @@ d[i]]

RECURSIVE Pick(_, _, _)
\* the rows of d whose index is in keep, from index i on, in order
Pick(d, keep, i) ==
    IF i > Len(d) THEN <<>>
    ELSE (IF i \in keep THEN <<d[i]>> ELSE <<>>) \o Pick(d, keep, i + 1)

\* df.drop_duplicates(subset=[c], keep="last"); missing keys equal each other
drop_duplicates(d, c) ==
    Pick(d, {i \in 1..Len(d) : \A j \in (i + 1)..Len(d) : d[j][c] # d[i][c]}, 1)

\* lines 63-65
Deduplicate(cols, d) ==
    IF Has(cols, "asset_id") THEN drop_duplicates(d, "asset_id") ELSE d

\* line 68
TrimColumns(cols) == {Header(h.name, 0, 0) : h \in cols}

date_cols == <<"purchase_date", "warranty_end", "retire_date">>

\* lines 70-73
ParseDates(cols, d) ==
    [i \in 1..Len(d) |->
        [c \in DOMAIN d[i] |->
            IF c \in Range(date_cols) /\ Has(cols, c)
            THEN coerce_date(d[i][c]) ELSE d[i][c]]]

\* Series.astype(str): a missing value becomes the text "nan"
AsTypeStr(x) == IF IsNA(x) THEN Str(<<"n", "a", "n">>) ELSE x

StrStrip(x) == IF x.k = "str" THEN Str(Strip(x.s)) ELSE x

NormalizeModel(x) == StrStrip(AsTypeStr(x))

\* lines 75-79
NormalizeVendorModel(cols, d) ==
    [i \in 1..Len(d) |->
        [c \in DOMAIN d[i] |->
            IF c = "vendor" /\ Has(cols, c) THEN normalize_vendor(d[i][c])
            ELSE IF c = "model" /\ Has(cols, c) THEN NormalizeModel(d[i][c])
            ELSE d[i][c]]]

num_cols == <<"ram_gb", "storage_gb", "ticket_count_last_6m", "bsod_cnt_30d",
              "battery_cycle", "battery_design_cap", "battery_full_cap",
              "cpu_temp_max", "gpu_temp_max", "thermal_throttle_cnt",
              "smart_realloc", "smart_pending", "disk_errors_30d",
              "uptime_hours_7d", "patch_missing_cnt">>

\* lines 89-91
CoerceNumbers(cols, d) ==
    [i \in 1..Len(d) |->
        [c \in DOMAIN d[i] |->
            IF c \in Range(num_cols) /\ Has(cols, c)
            THEN to_number(d[i][c]) ELSE d[i][c]]]

MinBatteryCycle == 0
MinTemp == 20
MaxTemp == 120

\* line 95
SaneCycle(x) == IF ~IsNA(x) /\ RLt(x, Int2Num(MinBatteryCycle)) THEN NA ELSE x

\* lines 98-99
SaneTemp(x) ==
    IF ~IsNA(x) /\ (RLt(x, Int2Num(MinTemp)) \/ RLt(Int2Num(MaxTemp), x))
    THEN NA ELSE x

temp_cols == <<"cpu_temp_max", "gpu_temp_max">>

\* lines 93-99
SanityCorrect(cols, d) ==
    [i \in 1..Len(d) |->
        [c \in DOMAIN d[i] |->
            IF c = "battery_cycle" /\ Has(cols, c) THEN SaneCycle(d[i][c])
            ELSE IF c \in Range(temp_cols) /\ Has(cols, c) THEN SaneTemp(d[i][c])
            ELSE d[i][c]]]

(***************************************************************************)
(* Medians and quantiles of a column, missing values skipped.              *)
(***************************************************************************)
RECURSIVE SortIdx(_, _)
\* the cells d[i][c], i in idx, in ascending order
SortIdx(col, idx) ==
    IF idx = {} THEN <<>>
    ELSE LET m == CHOOSE i \in idx : \A j \in idx : RLe(col[i], col[j])
         IN <<col[m]>> \o SortIdx(col, idx \ {m})

Column(d, c) == [i \in 1..Len(d) |-> d[i][c]]

NonNull(col, idx) == {i \in idx : ~IsNA(col[i])}

\* a variant of the median that adds the two middle values and does not halve
MedianNoHalving(col, idx) ==
    LET s == SortIdx(col, NonNull(col, idx))
        n == Len(s)
    IN IF n = 0 THEN NA
       ELSE IF n % 2 = 1 THEN s[(n + 1) \div 2]
       ELSE RAdd(s[n \div 2], s[n \div 2 + 1])

\* Series.median() over the rows idx
Median(col, idx) ==
    LET s == SortIdx(col, NonNull(col, idx))
        n == Len(s)
    IN IF n = 0 THEN NA
       ELSE IF n % 2 = 1 THEN s[(n + 1) \div 2]
       ELSE RDiv(RAdd(s[n \div 2], s[n \div 2 + 1]), Int2Num(2))

\* Series.quantile(q), q = qn/qd, linear interpolation
Quantile(col, qn, qd) ==
    LET s == SortIdx(col, NonNull(col, DOMAIN col))
        n == Len(s)
        lo == ((n - 1) * qn) \div qd
        frac == Num((n - 1) * qn - lo * qd, qd)
    IN IF n = 0 THEN NA
       ELSE IF frac.n = 0 THEN s[lo + 1]
       ELSE RAdd(s[lo + 1], RMul(RSub(s[lo + 2], s[lo + 1]), frac))

fillna(x, v) == IF IsNA(x) THEN v ELSE x

\* line 105: groupby("vendor").transform("median"); a row whose vendor is
\* missing is in no group and gets a missing value
MedByVendor(d, c, i) ==
    IF IsNA(d[i]["vendor"]) THEN NA
    ELSE Median(Column(d, c), {j \in 1..Len(d) : d[j]["vendor"] = d[i]["vendor"]})

\* lines 105-106
CohortFill(d, c) == [i \in 1..Len(d) |-> fillna(d[i][c], MedByVendor(d, c, i))]

\* a variant of the imputation that stops after the cohort tier
GlobalFillSkipped(col) == col

\* lines 107-108
GlobalFill(col) == [i \in DOMAIN col |-> fillna(col[i], Median(col, DOMAIN col))]

ImputeColumn(d, c) == GlobalFill(CohortFill(d, c))

\* line 105 raises KeyError when the frame has no vendor column
ImputeRaises(cols) ==
    ~Has(cols, "vendor") /\ \E c \in Range(num_cols) : Has(cols, c)

\* lines 101-108
ImputeNumeric(cols, d) ==
    LET done == [c \in {x \in Range(num_cols) : Has(cols, x)} |-> ImputeColumn(d, c)]
    IN [i \in 1..Len(d) |->
           [c \in DOMAIN d[i] |-> IF c \in DOMAIN done THEN done[c][i] ELSE d[i][c]]]

cat_cols == <<"vendor", "model", "cpu", "storage_type", "os_version",
              "location", "status">>

\* lines 113-114
ImputeCategory(x) ==
    LET y == IF x.k = "str" /\ x.s = <<>> THEN NA ELSE x
    IN fillna(y, Str(V_unknown))

\* lines 110-114
ImputeCategorical(cols, d) ==
    [i \in 1..Len(d) |->
        [c \in DOMAIN d[i] |->
            IF c \in Range(cat_cols) /\ Has(cols, c)
            THEN ImputeCategory(d[i][c]) ELSE d[i][c]]]

LowerQ == 1
UpperQ == 99
QDen == 100

\* Series.clip(lo, hi); a missing threshold does not clip
Clip(x, lo, hi) ==
    IF IsNA(x) THEN x
    ELSE LET y == IF IsNA(lo) THEN x ELSE RMax(x, lo)
         IN IF IsNA(hi) THEN y ELSE RMin(y, hi)

\* series.dtype.kind in "biufc"
IsNumericSeries(col) == \A i \in DOMAIN col : col[i].k \in {"na", "num"}

\* lines 55-59
cap_outliers(col) ==
    IF ~IsNumericSeries(col) THEN col
    ELSE LET q_low == Quantile(col, LowerQ, QDen)
             q_hi == Quantile(col, UpperQ, QDen)
         IN [i \in DOMAIN col |-> Clip(col[i], q_low, q_hi)]

cap_cols == <<"cpu_temp_max", "gpu_temp_max", "battery_cycle", "uptime_hours_7d">>

\* lines 116-119
CapOutliers(cols, d) ==
    LET done == [c \in {x \in Range(cap_cols) : Has(cols, x)} |->
                    cap_outliers(Column(d, c))]
    IN [i \in 1..Len(d) |->
           [c \in DOMAIN d[i] |-> IF c \in DOMAIN done THEN done[c][i] ELSE d[i][c]]]

(***************************************************************************)
(* Feature engineering (lines 121-149).                                    *)
(***************************************************************************)
\* line 122: pd.Timestamp("2025-08-13")
today == DaysFromCivil(2025, 8, 13)

\* (today - purchase_date).dt.days
TimedeltaDays(x) == IF IsNA(x) THEN NA ELSE Int2Num(today - x.n)

ClipLower(x, lo) == IF IsNA(x) THEN x ELSE RMax(x, lo)

\* a variant of age_days without the clip at zero
AgeDaysUnclipped(x) == TimedeltaDays(x)

\* lines 124-125
AgeDays(x) == ClipLower(TimedeltaDays(x), Int2Num(0))

\* Series.round(1): to the nearest tenth, a tie to the even one
Round1(x) ==
    IF IsNA(x) THEN x
    ELSE LET t == 10 * x.n
             q == t \div x.d
             r == t - q * x.d
             up == 2 * r > x.d \/ (2 * r = x.d /\ q % 2 = 1)
         IN Num(IF up THEN q + 1 ELSE q, 10)

\* line 126
AgeMonths(a) == IF IsNA(a) THEN a ELSE Round1(RDiv(a, Int2Num(30)))

\* line 131
InWarranty(x) == IF ~IsNA(x) /\ today <= x.n THEN Int2Num(1) ELSE Int2Num(0)

\* float division of two Series cells under np.errstate(divide='ignore')
FloatDiv(a, b) ==
    IF IsNA(a) \/ IsNA(b) THEN NA
    ELSE IF b.n = 0
         THEN (IF a.n > 0 THEN PInf ELSE IF a.n < 0 THEN NInf ELSE NA)
         ELSE RDiv(a, b)

\* Series.clip(upper=hi)
ClipUpper(x, hi) ==
    CASE x.k = "na" -> x
      [] x.k = "pinf" -> hi
      [] x.k = "ninf" -> x
      [] OTHER -> RMin(x, hi)

BatteryHealthCap == Num(12, 10)

\* line 137
BatteryHealth(full, design) == ClipUpper(FloatDiv(full, design), BatteryHealthCap)

NVME == <<"N", "V", "M", "E">>
macos == <<"m", "a", "c", "o", "s">>

\* line 142
IsNvme(x) == IF Contains(Upper(AsTypeStr(x).s), NVME) THEN Int2Num(1) ELSE Int2Num(0)

\* line 147
IsMac(x) == IF Contains(Lower(AsTypeStr(x).s), macos) THEN Int2Num(1) ELSE Int2Num(0)

derived_cols == <<"age_days", "age_months", "in_warranty", "battery_health",
                  "is_nvme", "is_mac">>

\* the columns lines 123-149 assign
FeatureColumns(cols) ==
    {Header(c, 0, 0) : c \in Range(derived_cols) \ 
                            (IF Has(cols, "purchase_date") THEN {} ELSE {"age_days"})}

\* lines 121-149
DeriveFeatures(cols, d) ==
    [i \in 1..Len(d) |->
        LET r == d[i]
            age == IF Has(cols, "purchase_date") THEN AgeDays(r["purchase_date"]) ELSE NA
            f == [c \in {h.name : h \in FeatureColumns(cols)} |->
                    CASE c = "age_days" -> age
                      [] c = "age_months" -> AgeMonths(age)
                      [] c = "in_warranty" ->
                            IF Has(cols, "warranty_end")
                            THEN InWarranty(r["warranty_end"]) ELSE Int2Num(0)
                      [] c = "battery_health" ->
                            IF Has(cols, "battery_full_cap") /\ Has(cols, "battery_design_cap")
                            THEN BatteryHealth(r["battery_full_cap"], r["battery_design_cap"])
                            ELSE NA
                      [] c = "is_nvme" ->
                            IF Has(cols, "storage_type")
                            THEN IsNvme(r["storage_type"]) ELSE Int2Num(0)
                      [] c = "is_mac" ->
                            IF Has(cols, "os_version")
                            THEN IsMac(r["os_version"]) ELSE Int2Num(0)]
        IN f @@ r]

feat_cols == <<"asset_id", "vendor", "model", "cpu", "ram_gb", "storage_gb",
               "storage_type", "os_version", "location", "age_months",
               "in_warranty", "battery_health", "battery_cycle", "cpu_temp_max",
               "gpu_temp_max", "thermal_throttle_cnt", "smart_realloc",
               "smart_pending", "disk_errors_30d", "uptime_hours_7d",
               "patch_missing_cnt", "ticket_count_last_6m", "bsod_cnt_30d",
               "label_failure_90d", "label_retire_180d">>

\* lines 164-165
FeatureTable(cols, d) ==
    LET keep == SelectSeq(feat_cols, LAMBDA c : Has(cols, c))
    IN [columns |-> keep,
        rows |-> [i \in 1..Len(d) |-> [c \in Range(keep) |-> d[i][c]]]]

NoTable == [columns |-> <<>>, rows |-> <<>>]

(***************************************************************************)
(* The run: one action per stage of the script, in the script's order.     *)
(***************************************************************************)
Step(from, to, cols, d) ==
    /\ pc = from
    /\ pc' = to
    /\ columns' = cols
    /\ df' = d
    /\ UNCHANGED <<raw_columns, raw_df, out_clean, out_feats, arg, ret>>

StageDedup == Step("dedup", "trim", columns, Deduplicate(columns, df))

StageTrim == Step("trim", "dates", TrimColumns(columns), df)

StageDates == Step("dates", "vendor_model", columns, ParseDates(columns, df))

StageVendorModel ==
    Step("vendor_model", "to_number", columns, NormalizeVendorModel(columns, df))

StageNumbers == Step("to_number", "sanity", columns, CoerceNumbers(columns, df))

StageSanity == Step("sanity", "impute_num", columns, SanityCorrect(columns, df))

StageImputeNumeric ==
    IF ImputeRaises(columns)
    THEN Step("impute_num", "crashed", columns, df)
    ELSE Step("impute_num", "impute_cat", columns, ImputeNumeric(columns, df))

StageImputeCategorical ==
    Step("impute_cat", "cap", columns, ImputeCategorical(columns, df))

StageCap == Step("cap", "features", columns, CapOutliers(columns, df))

StageFeatures ==
    Step("features", "emit", columns \cup FeatureColumns(columns),
         DeriveFeatures(columns, df))

\* lines 151-165
StageEmit ==
    /\ pc = "emit"
    /\ pc' = "done"
    /\ out_clean' = [columns |-> columns, rows |-> df]
    /\ out_feats' = FeatureTable(columns, df)
    /\ UNCHANGED <<columns, df, raw_columns, raw_df, arg, ret>>

Next ==
    \/ StageDedup
    \/ StageTrim
    \/ StageDates
    \/ StageVendorModel
    \/ StageNumbers
    \/ StageSanity
    \/ StageImputeNumeric
    \/ StageImputeCategorical
    \/ StageCap
    \/ StageFeatures
    \/ StageEmit

(***************************************************************************)
(* Inputs.  pd.read_csv (line 61) gives a missing value for an empty cell  *)
(* and the text of the cell otherwise.  The tables below are small dirty   *)
(* tables over a few of the documented columns each.                       *)
(***************************************************************************)
Tables(rows, n) == UNION {[1..k -> rows] : k \in 1..n}

Headers(names) == {Header(c, 0, 0) : c \in names}

Frames(names, rows, n) ==
    {[columns |-> Headers(names), rows |-> r] : r \in Tables(rows, n)}

IdCells == {Str(<<"A", "1">>), Str(<<"A", "2">>)}
ModelCells == {NA, Str(<<" ", "X", "1", " ">>)}

\* asset_id under a header with blanks around it, and model
DedupFrames ==
    {[columns |-> {Header("asset_id", l, r)} \cup Headers({"model"}), rows |-> x] :
        l \in 0..MaxPad, r \in 0..MaxPad,
        x \in Tables([asset_id : IdCells, model : ModelCells], MaxRowsDedup)}

VendorCells == {NA, Str(<<"D", "e", "l", "l">>), Str(<<"H", "u", "a", "w", "e", "i">>)}
TempCells == {NA, Str(<<"1", "5">>), Str(<<"5", "0", " ", "C">>), Str(<<"8", "0">>)}
HotCells == {NA, Str(<<"1", "5">>), Str(<<"1", "2", "5">>), Str(<<"8", "0">>)}
CycleCells == {NA, Str(<<"-", "5">>), Str(<<"3", "0", "0">>), Str(<<"1", ",", "2", "0", "0">>)}

\* a temperature with and without the vendor column; a battery cycle count
ImputeFrames ==
    Frames({"vendor", "cpu_temp_max"},
           [vendor : VendorCells, cpu_temp_max : TempCells], MaxRowsImpute)
    \cup Frames({"gpu_temp_max"}, [gpu_temp_max : HotCells], MaxRowsImpute)
    \cup Frames({"vendor", "battery_cycle"},
                [vendor : {Str(<<"D", "e", "l", "l">>), Str(<<"h", "p">>)}, battery_cycle : CycleCells],
                MaxRowsImpute)

FullCapCells == {NA, Str(<<"4", "5">>), Str(<<"7", "0">>), Str(<<"0">>), Str(<<"-", "4", "5">>)}
DesignCapCells == {NA, Str(<<"5", "0">>), Str(<<"0">>)}

BatteryFrames ==
    Frames({"vendor", "battery_full_cap", "battery_design_cap"},
           [vendor : {Str(<<"D", "e", "l", "l">>)}, battery_full_cap : FullCapCells,
            battery_design_cap : DesignCapCells], MaxRowsFeat)
    \cup Frames({"vendor", "battery_full_cap"},
                [vendor : {Str(<<"D", "e", "l", "l">>)}, battery_full_cap : FullCapCells],
                MaxRowsFeat)

PurchaseCells == {NA, Str(<<"2", "0", "2", "5", "-", "0", "8", "-", "1", "3">>), Str(<<"1", "4", "/", "0", "8", "/", "2", "0", "2", "5">>), Str(<<"0", "1", "-", "J", "a", "n", "-", "2", "0", "2", "0">>), Str(<<"t", "b", "d">>), Str(<<"2", "0", "2", "4", EnDash, "0", "2", EnDash, "2", "9">>)}
WarrantyCells == {NA, Str(<<"2", "0", "2", "6", "/", "0", "1", "/", "0", "1">>), Str(<<"0", "8", "-", "1", "2", "-", "2", "0", "2", "5">>)}

DateFrames ==
    Frames({"purchase_date", "warranty_end"},
           [purchase_date : PurchaseCells, warranty_end : WarrantyCells], MaxRowsFeat)
    \cup Frames({"retire_date"}, [retire_date : WarrantyCells], MaxRowsFeat)

StorageCells == {NA, Str(<<"N", "V", "M", "e", " ", "S", "S", "D">>), Str(<<"H", "D", "D">>)}
OsCells == {NA, Str(<<"m", "a", "c", "O", "S", " ", "1", "4">>), Str(<<"W", "i", "n", " ", "1", "1">>)}
StatusCells == {NA, Str(<<" ">>)}

CategoryFrames ==
    Frames({"storage_type", "os_version", "status"},
           [storage_type : StorageCells, os_version : OsCells, status : StatusCells],
           MaxRowsFeat)

InputFrames ==
    DedupFrames \cup ImputeFrames \cup BatteryFrames \cup DateFrames \cup CategoryFrames

Init ==
    /\ pc = "dedup"
    /\ \E f \in InputFrames :
          /\ raw_columns = f.columns
          /\ raw_df = f.rows
          /\ columns = f.columns
          /\ df = f.rows
    /\ out_clean = [columns |-> {}, rows |-> <<>>]
    /\ out_feats = NoTable
    /\ arg = NA
    /\ ret = NA

Spec == Init /\ [][Next]_vars

(***************************************************************************)
(* The coercers on their own: one call of to_number, one call of           *)
(* normalize_vendor, on every short text over a small alphabet and on a    *)
(* few longer ones.                                                        *)
(***************************************************************************)
Texts(alphabet, n) == UNION {[1..k -> alphabet] : k \in 0..n}

NumberAlphabet == {"1", "5", ".", "-", ",", " ", "G", EmDash}

NumberExamples ==
    {<<"1", ",", "0", "2", "4", " ", "M", "B">>,
     <<"3", "2", " ", "G", "B">>,
     <<"-", "-">>,
     <<"1", "0", "-", "2", "0", " ", "G", "B">>,
     <<"-", "1", "2", ".", "5", "0">>,
     <<"1", ".", "2", ".", "3">>,
     <<"$", " ", "1", ",", "5", "0", "0", ".", "7", "5">>}

NumberInputs ==
    {NA} \cup {Str(s) : s \in Texts(NumberAlphabet, MaxNumLen) \cup NumberExamples}

VendorAlphabet == {"h", "H", "p", "-", " ", "x"}

VendorExamples ==
    {<<" ", "D", "-", "e", "-", "l", "-", "l", " ">>,
     <<"H", "u", "a", "w", "e", "i">>,
     <<"D", "e", "l", "l">>,
     <<" ", "D", "E", "L", "L", " ">>,
     <<"d", "e", "l", "l", "l">>,
     <<"L", "e", "n", "o", "v", "o">>,
     <<"L", "E", "N", "O", "V", "0">>,
     <<"l", "e", "n", "v", "o">>,
     <<"A", "p", "p", "l", "e">>,
     <<"A", "p", " ", "p", "l", "e">>,
     <<"A", "S", "U", "S">>,
     <<"a", "s", "u", "s", "s">>,
     <<"A", "c", "e", "r">>,
     <<"a_circ", "c", "e", "r">>,
     <<"M", "S", "I">>,
     <<"m", " ", "s", " ", "i">>}

VendorInputs ==
    {NA} \cup {Str(s) : s \in Texts(VendorAlphabet, MaxVendorLen) \cup VendorExamples}

Idle ==
    /\ columns = {}
    /\ df = <<>>
    /\ raw_columns = {}
    /\ raw_df = <<>>
    /\ out_clean = [columns |-> {}, rows |-> <<>>]
    /\ out_feats = NoTable
    /\ ret = NA

Return(v) ==
    /\ pc' = "returned"
    /\ ret' = v
    /\ UNCHANGED <<columns, df, raw_columns, raw_df, out_clean, out_feats, arg>>

CallToNumber == pc = "to_number" /\ Return(to_number(arg))

InitNumber == pc = "to_number" /\ arg \in NumberInputs /\ Idle

SpecNumber == InitNumber /\ [][CallToNumber]_vars

CallNormalizeVendor == pc = "normalize_vendor" /\ Return(normalize_vendor(arg))

InitVendor == pc = "normalize_vendor" /\ arg \in VendorInputs /\ Idle

SpecVendor == InitVendor /\ [][CallNormalizeVendor]_vars

(***************************************************************************)
(* Properties.                                                             *)
(***************************************************************************)
Schema == TrimColumns(raw_columns)

InSchema(c) == Has(Schema, c)

\* the frame as it stands when sanity correction ends, worked out from the input
PreImpute ==
    SanityCorrect(Schema,
        CoerceNumbers(Schema,
            NormalizeVendorModel(Schema,
                ParseDates(Schema, Deduplicate(raw_columns, raw_df)))))

Rows == out_clean.rows

Unknown == Str(V_unknown)

IsZero(x) == x.k = "num" /\ x.n = 0

\* C1: when the trimmed header holds asset_id, the clean table has exactly one
\* row for each distinct asset_id of the input, and that row stems from the
\* last input row with that asset_id.
C1_DedupLast ==
    (pc = "done" /\ InSchema("asset_id")) =>
        /\ \A i, j \in 1..Len(Rows) :
              Rows[i]["asset_id"] = Rows[j]["asset_id"] => i = j
        /\ \A i \in 1..Len(raw_df) :
              (\A j \in (i + 1)..Len(raw_df) : raw_df[j]["asset_id"] # raw_df[i]["asset_id"])
              => \E k \in 1..Len(Rows) :
                    /\ Rows[k]["asset_id"] = raw_df[i]["asset_id"]
                    /\ Rows[k]["model"] = ImputeCategory(NormalizeModel(raw_df[i]["model"]))

\* C2: a numeric column of the schema that holds a value when sanity correction
\* ends holds a value in every row of the clean table, whatever the row's vendor.
C2_ImputationTotal ==
    pc = "done" =>
        \A c \in Range(num_cols) :
            (InSchema(c) /\ \E i \in 1..Len(PreImpute) : ~IsNA(PreImpute[i][c]))
            => \A i \in 1..Len(Rows) : Rows[i][c].k = "num"

\* a finished run in which a row with no vendor and no temperature sits next
\* to rows that have one, and has been given a temperature
C2_Witness ==
    /\ pc = "done"
    /\ InSchema("cpu_temp_max")
    /\ \E i, j \in 1..Len(Rows) :
          /\ IsNA(PreImpute[i]["vendor"])
          /\ IsNA(PreImpute[i]["cpu_temp_max"])
          /\ ~IsNA(PreImpute[j]["cpu_temp_max"])
          /\ Rows[i]["cpu_temp_max"].k = "num"

\* C3: whatever documented columns the input lacks, the run does not stop on
\* an error before it has written its outputs.
C3_MissingColumnNotFatal == pc # "crashed"

\* C4: in the clean table no categorical cell is empty or missing, and a cell
\* that was absent or empty in the input reads "unknown".
C4_CategoricalSentinel ==
    (pc = "done" /\ Len(Rows) = Len(raw_df)) =>
        \A c \in Range(cat_cols) : InSchema(c) =>
            \A i \in 1..Len(Rows) :
                /\ Rows[i][c].k = "str"
                /\ Rows[i][c].s # <<>>
                /\ (IsNA(raw_df[i][c]) \/ raw_df[i][c].s = <<>>) => Rows[i][c] = Unknown

\* C5: battery_health is null where battery_design_cap is zero or null, and
\* min(battery_full_cap / battery_design_cap, 1.2) elsewhere.
C5_BatteryHealth ==
    (pc = "done" /\ InSchema("battery_full_cap") /\ InSchema("battery_design_cap")) =>
        \A i \in 1..Len(Rows) :
            LET full == Rows[i]["battery_full_cap"]
                design == Rows[i]["battery_design_cap"]
                health == Rows[i]["battery_health"]
            IN IF IsNA(design) \/ IsZero(design) THEN IsNA(health)
               ELSE IF IsNA(full) THEN IsNA(health)
               ELSE /\ health.k = "num"
                    /\ health = RMin(RDiv(full, design), Num(12, 10))

\* C6 as stated: with purchase_date in the schema, age_days >= 0 in every row
\* of the clean table, the rows whose purchase_date is absent or unreadable
\* included.
C6_AgeNonNegative ==
    (pc = "done" /\ InSchema("purchase_date")) =>
        \A i \in 1..Len(Rows) :
            Rows[i]["age_days"].k = "num" /\ Rows[i]["age_days"].n >= 0

\* C6, amended: with purchase_date in the schema, a row whose purchase_date
\* was read as a date has age_days = max(0, as-of minus that date) >= 0, and a
\* row whose purchase_date is absent or unreadable has a null age_days.
C6_AgeNonNegativeOrNull ==
    (pc = "done" /\ InSchema("purchase_date")) =>
        \A i \in 1..Len(Rows) :
            LET p == Rows[i]["purchase_date"]
                a == Rows[i]["age_days"]
            IN IF p.k = "date"
               THEN /\ a.k = "num" /\ a.d = 1 /\ a.n >= 0
                    /\ a.n >= today - p.n
                    /\ a.n \in {0, today - p.n}
               ELSE IsNA(a)

\* a finished run with a purchase date after the as-of day and an unreadable one
C6_Witness ==
    /\ pc = "done"
    /\ InSchema("purchase_date")
    /\ \E i, j \in 1..Len(Rows) :
          /\ Rows[i]["purchase_date"].k = "date"
          /\ Rows[i]["purchase_date"].n > today
          /\ IsZero(Rows[i]["age_days"])
          /\ ~IsNA(raw_df[j]["purchase_date"])
          /\ IsNA(Rows[j]["age_days"])

Text(x) == IF IsNA(x) THEN <<>> ELSE x.s

\* the stripping rule as C7 words it: commas and em-dashes go, and so does every
\* character that is not a digit, a decimal point or a minus sign in first place
ClaimedNumber(x) ==
    LET r == ReSubLeadingMinusOnly(Remove(Remove(Text(x), ","), EmDash))
    IN IF r \in {<<>>, <<"-">>, <<"-", "-">>} THEN NA ELSE PyFloat(r)

\* C7 as stated: to_number gives null for an absent or empty cell and otherwise
\* the number read off the text once every character but digits, decimal points
\* and a leading minus sign is removed, a minus sign further on included.
C7_StripsAllButLeadingMinus ==
    pc = "returned" => ret = ClaimedNumber(arg)

Ex_1024MB == Str(<<"1", ",", "0", "2", "4", " ", "M", "B">>)
Ex_32GB == Str(<<"3", "2", " ", "G", "B">>)
Ex_DashDash == Str(<<"-", "-">>)
Ex_Range == Str(<<"1", "0", "-", "2", "0", " ", "G", "B">>)

\* C7, amended: to_number returns for every cell; what is left of the text are
\* its digits, decimal points and minus signs, every minus sign kept.  The
\* result is null when that holds no digit, more than one decimal point or a
\* minus sign anywhere but first, and is otherwise the signed decimal number
\* written there.  "1,024 MB" gives 1024, "32 GB" 32, "--" null, "10-20 GB" null.
C7_KeepsEveryMinus ==
    pc = "returned" =>
        LET kept == SelectSeq(Text(arg), LAMBDA c : c \in Digits \cup {".", "-"})
            minusAt == {i \in 1..Len(kept) : kept[i] = "-"}
            dotAt == {i \in 1..Len(kept) : kept[i] = "."}
            digs == SelectSeq(kept, LAMBDA c : c \in Digits)
            fracLen == Cardinality({i \in 1..Len(kept) :
                                      kept[i] \in Digits /\ \E j \in dotAt : j < i})
            sign == IF minusAt = {} THEN 1 ELSE -1
        IN /\ ret.k \in {"na", "num"}
           /\ IF digs = <<>> \/ ~(minusAt \subseteq {1}) \/ Cardinality(dotAt) > 1
              THEN IsNA(ret)
              ELSE /\ ret.k = "num"
                   /\ ret.n * Pow10(fracLen) = sign * DigitsVal(digs) * ret.d
           /\ arg = Ex_1024MB => ret = Int2Num(1024)
           /\ arg = Ex_32GB => ret = Int2Num(32)
           /\ arg = Ex_DashDash => IsNA(ret)

\* to_number has returned null for a text with a minus sign between its digits
C7_Witness == pc = "returned" /\ arg = Ex_Range /\ IsNA(ret)

Ex_Dell == Str(<<" ", "D", "-", "e", "-", "l", "-", "l", " ">>)
Ex_Huawei == Str(<<"H", "u", "a", "w", "e", "i">>)

\* C8: normalize_vendor returns one of the seven canonical names or "unknown"
\* for every input; " D-e-l-l " gives "Dell", "Huawei" gives "unknown" and an
\* absent input gives "unknown".
C8_VendorInCanonicalSet ==
    pc = "returned" =>
        /\ ret \in {Str(v) : v \in CanonicalVendors \cup {V_unknown}}
        /\ arg = Ex_Dell => ret = Str(V_Dell)
        /\ arg = Ex_Huawei => ret = Unknown
        /\ IsNA(arg) => ret = Unknown

AfterSanity == {"impute_num", "impute_cat", "cap", "features", "emit", "done"}

InBounds(r, cols) ==
    /\ Has(cols, "battery_cycle") /\ ~IsNA(r["battery_cycle"]) =>
          RLe(Int2Num(0), r["battery_cycle"])
    /\ \A c \in Range(temp_cols) : (Has(cols, c) /\ ~IsNA(r[c])) =>
          RLe(Int2Num(20), r[c]) /\ RLe(r[c], Int2Num(120))

\* C9: from the end of sanity correction to the written table, every battery
\* cycle count that is not null is >= 0 and every temperature that is not null
\* lies in [20, 120], the imputed and the capped values included.
C9_SanityBoundsKept ==
    pc \in AfterSanity =>
        /\ \A i \in 1..Len(df) : InBounds(df[i], columns)
        /\ \A i \in 1..Len(Rows) : InBounds(Rows[i], columns)

\* a finished run in which one temperature was out of bounds, nulled and
\* imputed, and another was moved by the capping
C9_Witness ==
    /\ pc = "done"
    /\ InSchema("cpu_temp_max")
    /\ \E i, j \in 1..Len(Rows) :
          /\ ~IsNA(raw_df[i]["cpu_temp_max"])
          /\ IsNA(PreImpute[i]["cpu_temp_max"])
          /\ Rows[i]["cpu_temp_max"].k = "num"
          /\ ~IsNA(PreImpute[j]["cpu_temp_max"])
          /\ Rows[j]["cpu_temp_max"] # PreImpute[j]["cpu_temp_max"]

\* the cohort of a row as C10 words it: a row without vendor is in the
\* "unknown" cohort, with the vendors the table does not know
ClaimedCohort(d, i) ==
    {j \in 1..Len(d) : fillna(d[j]["vendor"], Unknown) = fillna(d[i]["vendor"], Unknown)}

ClaimedImpute(d, c) ==
    LET col == Column(d, c)
        tier1 == [i \in 1..Len(d) |-> fillna(col[i], Median(col, ClaimedCohort(d, i)))]
    IN [i \in 1..Len(d) |-> fillna(tier1[i], Median(tier1, DOMAIN tier1))]

\* C10: when numeric imputation ends, a cell that was missing holds the median
\* of its vendor cohort if the cohort has a value (rows without vendor counted
\* in the "unknown" cohort), and the median of the column after the cohort tier
\* otherwise; a cell that was not missing is unchanged.
C10_TwoTierImputation ==
    (pc = "impute_cat" /\ InSchema("vendor")) =>
        \A c \in Range(num_cols) : InSchema(c) =>
            \A i \in 1..Len(df) : df[i][c] = ClaimedImpute(PreImpute, c)[i]

====
